---- MODULE Spec2Model ----
(***************************************************************************)
(* State-machine model of the alarm scheduler (AlarmManager) and of the    *)
(* notification store and scheduler (NotificationManager) of the Weather   *)
(* & Alarm application.                                                    *)
(***************************************************************************)
EXTENDS Integers, Sequences, FiniteSets, TLC

VARIABLES
  now,                      \* wall clock, seconds since 00:00:00 of Epoch
  alarms,                   \* AlarmManager.alarms
  active_alarms,            \* AlarmManager.active_alarms: id -> timeout of its dismiss timer
  alarms_file,              \* content of the alarms file
  check_due,                \* next timeout of AlarmManager.check_timer
  emitted,                  \* signals emitted by the last operation, in order
  ret,                      \* the last operation and what it returned
  rung,                     \* ids of the alarms triggered so far in the current wall-clock minute
  io_failures,              \* how many writes of the alarms file have failed so far
  notifications,            \* NotificationManager.notifications
  scheduled_notifications,  \* NotificationManager.scheduled_notifications
  schedule_due,             \* next timeout of NotificationManager.schedule_timer
  stack,                    \* the polls waiting in MainWindow.on_alarm_triggered, innermost last
  alarms_list,              \* AlarmWidget.alarms_list of the thread-per-alarm variant: the texts of its rows
  app_alarms,               \* WeatherAlarmApp.alarms of that variant
  alarm_threads,            \* WeatherAlarmApp.alarm_threads: numbers of threads
  threads,                  \* the AlarmThread objects created so far, by number
  posted                    \* alarm_signal emissions queued for the thread of the window

vars == <<now, alarms, active_alarms, alarms_file, check_due, emitted, ret, rung, io_failures,
          notifications, scheduled_notifications, schedule_due, stack,
          alarms_list, app_alarms, alarm_threads, threads, posted>>

notif_vars == <<notifications, scheduled_notifications, schedule_due>>
alarm_vars == <<alarms, active_alarms, alarms_file, check_due, rung, io_failures>>
thread_vars == <<alarms_list, app_alarms, alarm_threads, threads, posted>>
window_vars == <<stack, thread_vars>>

(***************************************************************************)
(* Bounds of the model.                                                    *)
(***************************************************************************)
MaxTicks == 8
LiveTicks == 2
UnknownTicks == 2
StoreTicks == 2
MaxIoFailures == 1
MaxScheduled == 2
MaxDelivered == 2
NotifTicks == 3
ModalTicks == 3
DailyTicks == 7
MaxDays == 2
MaxNested == 2

(***************************************************************************)
(* Program constants.                                                      *)
(***************************************************************************)
DEFAULT_ALARM_DURATION == 60
CheckInterval == 10
ScheduleInterval == 60

SecondsPerDay == 24 * 3600

(***************************************************************************)
(* datetime: the proleptic Gregorian calendar, as Python's datetime does   *)
(* its arithmetic (through day ordinals).                                  *)
(***************************************************************************)
IsLeap(y) == y % 4 = 0 /\ (y % 100 # 0 \/ y % 400 = 0)

DaysBeforeYear(y) ==
  LET p == y - 1 IN p * 365 + (p \div 4) - (p \div 100) + (p \div 400)

\* days of a common year before the first of each month
CommonDaysBefore == <<0, 31, 59, 90, 120, 151, 181, 212, 243, 273, 304, 334>>

DaysBeforeMonth(y, m) == CommonDaysBefore[m] + (IF m > 2 /\ IsLeap(y) THEN 1 ELSE 0)

ToOrdinal(y, m, d) == DaysBeforeYear(y) + DaysBeforeMonth(y, m) + d

\* the month of the n-th day (n from 0) of year y: an estimate, corrected when too high
MonthOfDay(y, n) ==
  LET m == (n + 50) \div 32
  IN  IF DaysBeforeMonth(y, m) > n THEN m - 1 ELSE m

FromOrdinal(ord) ==
  LET n0   == ord - 1
      n400 == n0 \div 146097
      r400 == n0 % 146097
      n100 == r400 \div 36524
      r100 == r400 % 36524
      n4   == r100 \div 1461
      r4   == r100 % 1461
      n1   == r4 \div 365
      n    == r4 % 365
      year == n400 * 400 + 1 + n100 * 100 + n4 * 4 + n1
  IN  IF n1 = 4 \/ n100 = 4
      THEN [year |-> year - 1, month |-> 12, day |-> 31]
      ELSE LET m == MonthOfDay(year, n)
           IN  [year |-> year, month |-> m, day |-> n - DaysBeforeMonth(year, m) + 1]

\* datetime(year, month, day, hour, minute, second)
datetime(y, mo, d, h, mi, s) ==
  [year |-> y, month |-> mo, day |-> d, hour |-> h, minute |-> mi, second |-> s]

\* dt + timedelta(seconds = secs), secs of either sign
DtAddSeconds(dt, secs) ==
  LET tod  == dt.hour * 3600 + dt.minute * 60 + dt.second + secs
      dd   == IF tod >= 0 THEN tod \div SecondsPerDay
              ELSE -((SecondsPerDay - 1 - tod) \div SecondsPerDay)
      t    == tod - dd * SecondsPerDay
      date == FromOrdinal(ToOrdinal(dt.year, dt.month, dt.day) + dd)
  IN  datetime(date.year, date.month, date.day, t \div 3600, (t \div 60) % 60, t % 60)

\* dt + timedelta(days = days)
DtAddDays(dt, days) ==
  LET date == FromOrdinal(ToOrdinal(dt.year, dt.month, dt.day) + days)
  IN  datetime(date.year, date.month, date.day, dt.hour, dt.minute, dt.second)

\* strftime('%Y%m%d%H%M%S'): the six fields, each at a fixed width
strftime(dt) == <<dt.year, dt.month, dt.day, dt.hour, dt.minute, dt.second>>

\* a < b and a <= b on datetimes: the fields compared in order
RECURSIVE TupleLess(_, _)
TupleLess(a, b) ==
  /\ a # <<>>
  /\ \/ Head(a) < Head(b)
     \/ Head(a) = Head(b) /\ TupleLess(Tail(a), Tail(b))

DtLess(a, b) == TupleLess(strftime(a), strftime(b))

DtLeq(a, b) == a = b \/ DtLess(a, b)

\* the day on which the model's clock reads 0
Epoch == datetime(2023, 12, 31, 0, 0, 0)

\* datetime.now() when the clock reads t
DateTimeNow(t) ==
  LET date == FromOrdinal(ToOrdinal(Epoch.year, Epoch.month, Epoch.day) + t \div SecondsPerDay)
      tod  == t % SecondsPerDay
  IN  datetime(date.year, date.month, date.day, tod \div 3600, (tod \div 60) % 60, tod % 60)

(***************************************************************************)
(* QTime and its 'HH:mm' text.                                             *)
(***************************************************************************)
\* QTime(h, m): an invalid time reads hour() = minute() = -1
QTime(h, m) ==
  IF h \in 0..23 /\ m \in 0..59 THEN [hour |-> h, minute |-> m]
  ELSE [hour |-> -1, minute |-> -1]

\* QTime.currentTime()
CurrentTime(t) == QTime((t \div 3600) % 24, (t \div 60) % 60)

Digits == <<"0", "1", "2", "3", "4", "5", "6", "7", "8", "9">>
DigitChar(n) == Digits[n + 1]
IsDigit(c) == \E n \in 0..9 : Digits[n + 1] = c
DigitVal(c) == CHOOSE n \in 0..9 : Digits[n + 1] = c

\* time.toString('HH:mm'): two zero-padded fields; the empty string for an invalid time
toString(time) ==
  IF time.hour = -1 THEN <<>>
  ELSE <<DigitChar(time.hour \div 10), DigitChar(time.hour % 10), ":",
         DigitChar(time.minute \div 10), DigitChar(time.minute % 10)>>

\* str.split(':')
RECURSIVE split(_, _)
split(s, cur) ==
  IF s = <<>> THEN <<cur>>
  ELSE IF Head(s) = ":" THEN <<cur>> \o split(Tail(s), <<>>)
  ELSE split(Tail(s), Append(cur, Head(s)))

\* int(text) succeeds on a non-empty run of digits
IsInt(s) == s # <<>> /\ \A i \in 1..Len(s) : IsDigit(s[i])

RECURSIVE int(_)
int(s) == IF s = <<>> THEN 0 ELSE int(SubSeq(s, 1, Len(s) - 1)) * 10 + DigitVal(s[Len(s)])

(***************************************************************************)
(* Alarm                                                                   *)
(***************************************************************************)
\* Alarm.__init__ at clock t
Alarm(time, auto_dismiss, duration, enabled, label, t) ==
  [id           |-> <<toString(time), strftime(DateTimeNow(t))>>,
   time         |-> time,
   auto_dismiss |-> auto_dismiss,
   duration     |-> duration,
   enabled      |-> enabled,
   label        |-> label]

\* a variant of Alarm.__eq__ that compares the ids instead of the times
AlarmEqById(a, b) == a.id = b.id

\* Alarm.__eq__
AlarmEq(a, b) == a.time.hour = b.time.hour /\ a.time.minute = b.time.minute

\* Alarm.to_dict
to_dict(alarm) ==
  [id           |-> alarm.id,
   time         |-> toString(alarm.time),
   auto_dismiss |-> alarm.auto_dismiss,
   duration     |-> alarm.duration,
   enabled      |-> alarm.enabled,
   label        |-> alarm.label]

\* dict.get(key, default)
Get(data, key, default) == IF key \in DOMAIN data THEN data[key] ELSE default

\* Alarm.from_dict raises KeyError, IndexError or ValueError on these entries
FromDictRaises(data) ==
  \/ "time" \notin DOMAIN data
  \/ LET time_parts == split(data["time"], <<>>)
     IN  \/ Len(time_parts) < 2
         \/ ~IsInt(time_parts[1])
         \/ ~IsInt(time_parts[2])

\* a variant of Alarm.from_dict that keeps the id made by the constructor
from_dict_fresh_id(data, t) ==
  LET time_parts == split(data["time"], <<>>)
      time  == QTime(int(time_parts[1]), int(time_parts[2]))
  IN  Alarm(time,
            Get(data, "auto_dismiss", TRUE),
            Get(data, "duration", DEFAULT_ALARM_DURATION),
            Get(data, "enabled", TRUE),
            Get(data, "label", ""),
            t)

\* Alarm.from_dict at clock t
from_dict(data, t) ==
  LET time_parts == split(data["time"], <<>>)
      time  == QTime(int(time_parts[1]), int(time_parts[2]))
      alarm == Alarm(time,
                     Get(data, "auto_dismiss", TRUE),
                     Get(data, "duration", DEFAULT_ALARM_DURATION),
                     Get(data, "enabled", TRUE),
                     Get(data, "label", ""),
                     t)
  IN  [alarm EXCEPT !.id = Get(data, "id", alarm.id)]

(***************************************************************************)
(* The alarms file.                                                        *)
(***************************************************************************)
NoFile == [kind |-> "absent", data |-> <<>>]
Unparsable == [kind |-> "invalid", data |-> <<>>]
JsonFile(data) == [kind |-> "json", data |-> data]

\* outcomes of open(..., 'w') followed by json.dump
IoOutcomes == {"ok", "open_fails", "dump_fails"}

\* a variant of save_alarms without its try/except
save_alarms_unguarded(file, seq, io) ==
  [file   |-> CASE io = "ok" -> JsonFile([i \in 1..Len(seq) |-> to_dict(seq[i])])
                [] io = "open_fails" -> file
                [] OTHER -> Unparsable,
   raised |-> io # "ok"]

\* AlarmManager.save_alarms: the file afterwards, and whether an exception leaves
\* the method.  A failed open leaves the file as it was; a failed dump leaves the
\* truncated file.
save_alarms(file, seq, io) ==
  [file   |-> CASE io = "ok" -> JsonFile([i \in 1..Len(seq) |-> to_dict(seq[i])])
                [] io = "open_fails" -> file
                [] OTHER -> Unparsable,
   raised |-> FALSE]

\* the signals alarms_updated(list) and alarm_triggered(Alarm)
AlarmsUpdated(seq) == [sig |-> "alarms_updated", alarms |-> seq]
AlarmTriggered(alarm) == [sig |-> "alarm_triggered", alarm |-> alarm]

\* a variant of load_alarms that appends entry by entry and keeps what it has
\* appended when an entry fails
load_alarms_partial(cur, file, t) ==
  IF file.kind = "absent" \/ file.kind = "invalid"
  THEN [alarms |-> cur, emitted |-> <<>>, raised |-> FALSE]
  ELSE LET bad  == {i \in 1..Len(file.data) : FromDictRaises(file.data[i])}
           good == IF bad = {} THEN Len(file.data)
                   ELSE (CHOOSE i \in bad : \A j \in bad : i <= j) - 1
           loaded == [i \in 1..good |-> from_dict(file.data[i], t)]
       IN  [alarms  |-> loaded,
            emitted |-> IF bad = {} THEN <<AlarmsUpdated(loaded)>> ELSE <<>>,
            raised  |-> FALSE]

\* AlarmManager.load_alarms at clock t, self.alarms being cur
load_alarms(cur, file, t) ==
  IF file.kind = "absent"
  THEN [alarms |-> cur, emitted |-> <<>>, raised |-> FALSE]
  ELSE IF file.kind = "invalid" \/ \E i \in 1..Len(file.data) : FromDictRaises(file.data[i])
  THEN [alarms |-> cur, emitted |-> <<>>, raised |-> FALSE]
  ELSE LET loaded == [i \in 1..Len(file.data) |-> from_dict(file.data[i], t)]
       IN  [alarms |-> loaded, emitted |-> <<AlarmsUpdated(loaded)>>, raised |-> FALSE]

(***************************************************************************)
(* Inputs.                                                                 *)
(***************************************************************************)
\* what the callers of add_alarm pass: time, auto_dismiss, duration, enabled, label
Forms ==
  { <<QTime(8, 0), TRUE, 10, TRUE, "Gym">>,
    <<QTime(8, 0), FALSE, 60, TRUE, "">>,
    <<QTime(8, 1), TRUE, 60, FALSE, "">> }

\* the clock reading at construction: 07:59:50 on the epoch day
StartAlarm == 7 * 3600 + 59 * 60 + 50

\* the last clock reading of the model, which observes the clock for this many check intervals
EndOfTime(ticks) == StartAlarm + ticks * CheckInterval

\* the clock readings at which alarms are created: before 08:00, and during it
AddInstants == {StartAlarm, StartAlarm + 2 * CheckInterval}

\* an id no alarm of the model has
UnknownId == <<toString(QTime(0, 0)), strftime(Epoch)>>

\* an alarm saved by an earlier run of the program
StoredAlarm == Alarm(QTime(8, 0), TRUE, 60, TRUE, "Gym", 0)

\* alarms files found at start-up
InitFiles ==
  { NoFile,
    Unparsable,
    JsonFile(<<to_dict(StoredAlarm)>>),
    JsonFile(<<to_dict(StoredAlarm), [id |-> UnknownId, label |-> ""]>>),
    JsonFile(<<[to_dict(StoredAlarm) EXCEPT !.time = <<"8", "h">>]>>),
    JsonFile(<<[to_dict(StoredAlarm) EXCEPT !.time = <<"2", "5", ":", "9", "9">>]>>) }

EmptyMap == [x \in {} |-> 0]

Put(f, k, v) == [x \in DOMAIN f \cup {k} |-> IF x = k THEN v ELSE f[x]]
Drop(f, k) == [x \in DOMAIN f \ {k} |-> f[x]]

Ids(seq) == {seq[i].id : i \in 1..Len(seq)}

\* a variant of list.pop(i) that takes the last element whatever i is
PopLast(seq, i) == SubSeq(seq, 1, Len(seq) - 1)

\* list.pop(i)
Pop(seq, i) == SubSeq(seq, 1, i - 1) \o SubSeq(seq, i + 1, Len(seq))

\* the first index whose alarm has this id
IndexOfId(seq, alarm_id) == CHOOSE i \in 1..Len(seq) : seq[i].id = alarm_id /\ \A j \in 1..(i - 1) : seq[j].id # alarm_id

\* Python's None, True and False as returned values
None == [none |-> TRUE]
True == [bool |-> TRUE]
False == [bool |-> FALSE]

\* what the caller of an operation sees: its arguments by name, and the value
\* returned or an exception
Returned(op, arg, val) == [op |-> op, arg |-> arg, val |-> val, raised |-> FALSE]
Raised(op, arg) == [op |-> op, arg |-> arg, val |-> None, raised |-> TRUE]

(***************************************************************************)
(* AlarmManager                                                            *)
(***************************************************************************)
\* AlarmManager.__init__ followed by load_alarms: the state after construction
Construct(t, file) ==
  \E loaded \in {load_alarms(<<>>, file, t)} :
      /\ alarms = loaded.alarms
      /\ active_alarms = EmptyMap
      /\ alarms_file = file
      /\ check_due = t + CheckInterval
      /\ emitted = loaded.emitted
      /\ ret = [op |-> "__init__", arg |-> None, val |-> None, raised |-> loaded.raised]

\* a variant of the tail that emits alarms_updated and does not save
SaveAndEmitUnsaved(op, arg, seq, io) ==
  /\ alarms' = seq
  /\ alarms_file' = alarms_file
  /\ emitted' = <<AlarmsUpdated(seq)>>
  /\ ret' = Returned(op, arg, True)
  /\ io = "ok"
  /\ io_failures' = io_failures

\* the tail shared by add_alarm, remove_alarm and toggle_alarm: save, emit, return True
SaveAndEmit(op, arg, seq, io) ==
  \E saved \in {save_alarms(alarms_file, seq, io)} :
      /\ alarms' = seq
      /\ alarms_file' = saved.file
      /\ emitted' = IF saved.raised THEN <<>> ELSE <<AlarmsUpdated(seq)>>
      /\ ret' = IF saved.raised THEN Raised(op, arg) ELSE Returned(op, arg, True)
      /\ io = "ok" \/ io_failures < MaxIoFailures
      /\ io_failures' = IF io = "ok" THEN io_failures ELSE io_failures + 1

NotFound(op, arg, io) ==
  /\ emitted' = <<>>
  /\ ret' = Returned(op, arg, False)
  /\ io = "ok"
  /\ UNCHANGED <<alarms, alarms_file, io_failures>>

\* a variant of add_alarm that appends without looking for an alarm of the same time
add_alarm_unchecked(alarm, io) ==
  /\ SaveAndEmit("add_alarm", [alarm |-> alarm], Append(alarms, alarm), io)
  /\ UNCHANGED <<now, active_alarms, check_due, rung, notif_vars, window_vars>>

\* AlarmManager.add_alarm
add_alarm(alarm, io) ==
  /\ IF \E i \in 1..Len(alarms) : AlarmEq(alarms[i], alarm)
     THEN NotFound("add_alarm", [alarm |-> alarm], io)
     ELSE SaveAndEmit("add_alarm", [alarm |-> alarm], Append(alarms, alarm), io)
  /\ UNCHANGED <<now, active_alarms, check_due, rung, notif_vars, window_vars>>

\* AlarmManager.remove_alarm
remove_alarm(alarm_id, io) ==
  /\ IF alarm_id \in Ids(alarms)
     THEN SaveAndEmit("remove_alarm", [alarm_id |-> alarm_id],
                      Pop(alarms, IndexOfId(alarms, alarm_id)), io)
     ELSE NotFound("remove_alarm", [alarm_id |-> alarm_id], io)
  /\ UNCHANGED <<now, active_alarms, check_due, rung, notif_vars, window_vars>>

\* a variant of toggle_alarm that sets enabled to false instead of negating it
toggle_alarm_off(alarm_id, io) ==
  /\ IF alarm_id \in Ids(alarms)
     THEN LET i == IndexOfId(alarms, alarm_id)
          IN  SaveAndEmit("toggle_alarm", [alarm_id |-> alarm_id],
                          [alarms EXCEPT ![i].enabled = FALSE], io)
     ELSE NotFound("toggle_alarm", [alarm_id |-> alarm_id], io)
  /\ UNCHANGED <<now, active_alarms, check_due, rung, notif_vars, window_vars>>

\* AlarmManager.toggle_alarm
toggle_alarm(alarm_id, io) ==
  /\ IF alarm_id \in Ids(alarms)
     THEN LET i == IndexOfId(alarms, alarm_id)
          IN  SaveAndEmit("toggle_alarm", [alarm_id |-> alarm_id],
                          [alarms EXCEPT ![i].enabled = ~alarms[i].enabled], io)
     ELSE NotFound("toggle_alarm", [alarm_id |-> alarm_id], io)
  /\ UNCHANGED <<now, active_alarms, check_due, rung, notif_vars, window_vars>>

\* a variant of trigger_alarm that puts the id into the ringing set also without
\* auto-dismiss, with no timer that expires
trigger_alarm_registering(alarm, act, t) ==
  [emitted |-> <<AlarmTriggered(alarm)>>,
   active  |-> Put(act, alarm.id, IF alarm.auto_dismiss THEN t + alarm.duration
                                  ELSE t + 1000 * SecondsPerDay)]

\* a variant of trigger_alarm whose timer takes the duration for milliseconds
trigger_alarm_ms(alarm, act, t) ==
  [emitted |-> <<AlarmTriggered(alarm)>>,
   active  |-> IF alarm.auto_dismiss THEN Put(act, alarm.id, t + alarm.duration \div 1000) ELSE act]

\* AlarmManager.trigger_alarm at clock t: the signal, then the dismiss timer
trigger_alarm(alarm, act, t) ==
  [emitted |-> <<AlarmTriggered(alarm)>>,
   active  |-> IF alarm.auto_dismiss THEN Put(act, alarm.id, t + alarm.duration) ELSE act]

\* a variant of the condition of check_alarms that does not look at enabled
ShouldTriggerDisabledToo(alarm, current_time, act) ==
  /\ current_time.hour = alarm.time.hour
  /\ current_time.minute = alarm.time.minute
  /\ alarm.id \notin DOMAIN act

\* the condition of check_alarms under which an alarm is triggered
ShouldTrigger(alarm, current_time, act) ==
  /\ alarm.enabled
  /\ current_time.hour = alarm.time.hour
  /\ current_time.minute = alarm.time.minute
  /\ alarm.id \notin DOMAIN act

\* the loop of check_alarms from index i on
RECURSIVE CheckLoop(_, _, _, _)
CheckLoop(i, act, out, t) ==
  IF i > Len(alarms) THEN [active |-> act, emitted |-> out]
  ELSE IF ShouldTrigger(alarms[i], CurrentTime(t), act)
  THEN LET r == trigger_alarm(alarms[i], act, t)
       IN  CheckLoop(i + 1, r.active, out \o r.emitted, t)
  ELSE CheckLoop(i + 1, act, out, t)

\* how often the signals in out trigger the alarm with this id
Triggers(out, alarm_id) ==
  Cardinality({i \in 1..Len(out) : out[i].sig = "alarm_triggered" /\ out[i].alarm.id = alarm_id})

\* a timer is dispatched once no other timer of the manager is due earlier
EarliestDue(t) ==
  /\ t <= now
  /\ t <= check_due \/ check_due > now
  /\ \A x \in DOMAIN active_alarms : t <= active_alarms[x] \/ active_alarms[x] > now

\* AlarmManager.check_alarms, on the timeout of check_timer
check_alarms ==
  /\ EarliestDue(check_due)
  /\ \E r \in {CheckLoop(1, active_alarms, <<>>, now)} :
         /\ active_alarms' = r.active
         /\ emitted' = r.emitted
         /\ rung' = rung \cup {r.emitted[i].alarm.id : i \in 1..Len(r.emitted)}
  /\ check_due' = now + CheckInterval
  /\ ret' = Returned("check_alarms", None, None)
  /\ UNCHANGED <<now, alarms, alarms_file, io_failures, notif_vars, window_vars>>

\* a variant of dismiss_alarm that also takes the alarm out of the sequence, saves
\* and emits alarms_updated
dismiss_alarm_removing(alarm_id) ==
  /\ active_alarms' = IF alarm_id \in DOMAIN active_alarms
                      THEN Drop(active_alarms, alarm_id) ELSE active_alarms
  /\ \E seq \in {SelectSeq(alarms, LAMBDA a : a.id # alarm_id)} :
        /\ alarms' = seq
        /\ alarms_file' = save_alarms(alarms_file, seq, "ok").file
        /\ emitted' = <<AlarmsUpdated(seq)>>
  /\ ret' = Returned("dismiss_alarm", [alarm_id |-> alarm_id], None)
  /\ UNCHANGED <<now, check_due, rung, io_failures, notif_vars, window_vars>>

\* a variant of dismiss_alarm that pops the id without looking whether it is there
dismiss_alarm_unguarded(alarm_id) ==
  /\ active_alarms' = Drop(active_alarms, alarm_id)
  /\ emitted' = <<>>
  /\ ret' = IF alarm_id \in DOMAIN active_alarms
            THEN Returned("dismiss_alarm", [alarm_id |-> alarm_id], None)
            ELSE Raised("dismiss_alarm", [alarm_id |-> alarm_id])
  /\ UNCHANGED <<now, alarms, alarms_file, check_due, rung, io_failures, notif_vars, window_vars>>

\* AlarmManager.dismiss_alarm
dismiss_alarm(alarm_id) ==
  /\ active_alarms' = IF alarm_id \in DOMAIN active_alarms
                      THEN Drop(active_alarms, alarm_id) ELSE active_alarms
  /\ emitted' = <<>>
  /\ ret' = Returned("dismiss_alarm", [alarm_id |-> alarm_id], None)
  /\ UNCHANGED <<now, alarms, alarms_file, check_due, rung, io_failures, notif_vars, window_vars>>

\* the timeout of the one-shot dismiss timer started by trigger_alarm
DismissTimeout(alarm_id) ==
  /\ alarm_id \in DOMAIN active_alarms
  /\ EarliestDue(active_alarms[alarm_id])
  /\ dismiss_alarm(alarm_id)

\* the process ends and the application is started again
Restart ==
  /\ \E loaded \in {load_alarms(<<>>, alarms_file, now)} :
         /\ alarms' = loaded.alarms
         /\ emitted' = loaded.emitted
         /\ ret' = [op |-> "__init__", arg |-> None, val |-> None, raised |-> loaded.raised]
  /\ active_alarms' = EmptyMap
  /\ check_due' = now + CheckInterval
  /\ UNCHANGED <<now, alarms_file, rung, io_failures, notif_vars, window_vars>>

\* the wall clock moves on by one check interval
Advance(ticks) ==
  /\ now + CheckInterval <= EndOfTime(ticks)
  /\ now' = now + CheckInterval
  /\ rung' = IF CurrentTime(now') = CurrentTime(now) THEN rung ELSE {}
  /\ emitted' = <<>>
  /\ ret' = Returned("none", None, None)
  /\ UNCHANGED <<alarms, active_alarms, alarms_file, check_due, io_failures, notif_vars, window_vars>>

NewAlarms ==
  IF now \in AddInstants
  THEN {Alarm(f[1], f[2], f[3], f[4], f[5], now) : f \in Forms}
  ELSE {}

KnownIds == Ids(alarms) \cup DOMAIN active_alarms \cup {UnknownId}

\* WeatherAlarmApp.__init__ of the thread-per-alarm variant
NoThreads ==
  /\ alarms_list = <<>>
  /\ app_alarms = <<>>
  /\ alarm_threads = <<>>
  /\ threads = <<>>
  /\ posted = <<>>

Init ==
  /\ now = StartAlarm
  /\ \E file \in InitFiles : Construct(now, file)
  /\ rung = {}
  /\ io_failures = 0
  /\ notifications = <<>>
  /\ scheduled_notifications = <<>>
  /\ schedule_due = now + ScheduleInterval
  /\ stack = <<>>
  /\ NoThreads

(***************************************************************************)
(* Notification and NotificationManager                                    *)
(***************************************************************************)
\* None, and Python's truth test of an optional value (a null QDate or QTime is false too)
NullDate == [year |-> 0, month |-> 0, day |-> 0]
NullTime == [hour |-> -1, minute |-> -1]
Falsy(v) == v = None \/ v = NullDate \/ v = NullTime

\* what id() can return for an object: addresses of the heap
Addresses == 1..MaxDelivered

\* data or {}
OrEmptyDict(data) == IF data = None \/ data = EmptyMap THEN EmptyMap ELSE data

\* Notification.__init__ for an object allocated at addr
Notification(title, message, icon, timestamp, category, data, addr) ==
  [title     |-> title,
   message   |-> message,
   icon      |-> icon,
   timestamp |-> timestamp,
   category  |-> category,
   data      |-> OrEmptyDict(data),
   read      |-> FALSE,
   addr      |-> addr,
   id        |-> <<strftime(timestamp), addr>>]

NotificationAdded(n) == [sig |-> "notification_added", notification |-> n]
NotificationsUpdated(seq) == [sig |-> "notifications_updated", notifications |-> seq]
NotificationRemoved(id) == [sig |-> "notification_removed", notification_id |-> id]

\* the addresses of the notifications that are alive
Live(delivered) == {delivered[i].addr : i \in 1..Len(delivered)}

\* a variant of add_notification that emits notifications_updated with the list as
\* it was before the append
add_notification_stale_list(delivered, title, message, icon, category, data, t, addr) ==
  LET notification == Notification(title, message, icon, DateTimeNow(t), category, data, addr)
      list == Append(delivered, notification)
  IN  [notifications |-> list,
       emitted       |-> <<NotificationAdded(notification), NotificationsUpdated(delivered)>>,
       val           |-> notification]

\* NotificationManager.add_notification at clock t, the new object allocated at addr:
\* the delivered list, the signals and the returned notification
add_notification(delivered, title, message, icon, category, data, t, addr) ==
  LET notification == Notification(title, message, icon, DateTimeNow(t), category, data, addr)
      list == Append(delivered, notification)
  IN  [notifications |-> list,
       emitted       |-> <<NotificationAdded(notification), NotificationsUpdated(list)>>,
       val           |-> notification]

\* a call of NotificationManager.add_notification, the new object allocated at a
\* free address
AddNotificationCall(title, message, icon, category, data) ==
  /\ Len(notifications) < MaxDelivered
  /\ \E addr \in Addresses \ Live(notifications) :
       \E r \in {add_notification(notifications, title, message, icon, category, data, now, addr)} :
         /\ notifications' = r.notifications
         /\ emitted' = r.emitted
         /\ ret' = Returned("add_notification",
                            [title |-> title, message |-> message, icon |-> icon,
                             category |-> category, data |-> data],
                            r.val)
  /\ UNCHANGED <<now, scheduled_notifications, schedule_due>>

\* a variant of remove_notification that emits notifications_updated before
\* notification_removed
remove_notification_updated_first(notification_id) ==
  /\ IF \E i \in 1..Len(notifications) : notifications[i].id = notification_id
     THEN \E remaining \in {Pop(notifications, IndexOfId(notifications, notification_id))} :
            /\ notifications' = remaining
            /\ emitted' = <<NotificationsUpdated(remaining), NotificationRemoved(notification_id)>>
            /\ ret' = Returned("remove_notification", [notification_id |-> notification_id], True)
     ELSE /\ UNCHANGED notifications
          /\ emitted' = <<>>
          /\ ret' = Returned("remove_notification", [notification_id |-> notification_id], False)
  /\ UNCHANGED <<now, scheduled_notifications, schedule_due>>

\* NotificationManager.remove_notification
remove_notification(notification_id) ==
  /\ IF \E i \in 1..Len(notifications) : notifications[i].id = notification_id
     THEN \E remaining \in {Pop(notifications, IndexOfId(notifications, notification_id))} :
            /\ notifications' = remaining
            /\ emitted' = <<NotificationRemoved(notification_id), NotificationsUpdated(remaining)>>
            /\ ret' = Returned("remove_notification", [notification_id |-> notification_id], True)
     ELSE /\ UNCHANGED notifications
          /\ emitted' = <<>>
          /\ ret' = Returned("remove_notification", [notification_id |-> notification_id], False)
  /\ UNCHANGED <<now, scheduled_notifications, schedule_due>>

\* whether the caller passed the optional argument k.  The code tests `if category:`,
\* which is also false for an empty string; no caller passes one.
Given(args, k) == k \in DOMAIN args

\* a variant of clear_notifications that empties the list whatever the category
clear_notifications_all(args) ==
  /\ notifications' = <<>>
  /\ emitted' = <<NotificationsUpdated(<<>>)>>
  /\ ret' = Returned("clear_notifications", args, None)
  /\ UNCHANGED <<now, scheduled_notifications, schedule_due>>

\* NotificationManager.clear_notifications; args holds the arguments the caller passed
clear_notifications(args) ==
  /\ \E remaining \in {IF Given(args, "category")
                       THEN SelectSeq(notifications, LAMBDA n : n.category # args.category)
                       ELSE <<>>} :
        /\ notifications' = remaining
        /\ emitted' = <<NotificationsUpdated(remaining)>>
  /\ ret' = Returned("clear_notifications", args, None)
  /\ UNCHANGED <<now, scheduled_notifications, schedule_due>>

\* Notification.mark_as_read
mark_as_read(n) == [n EXCEPT !.read = TRUE]

\* a variant of mark_all_as_read that flips the flag
mark_all_as_read_toggle(args) ==
  /\ \E marked \in {[i \in 1..Len(notifications) |->
                       IF ~Given(args, "category") \/ notifications[i].category = args.category
                       THEN [notifications[i] EXCEPT !.read = ~notifications[i].read]
                       ELSE notifications[i]]} :
        /\ notifications' = marked
        /\ emitted' = <<NotificationsUpdated(marked)>>
  /\ ret' = Returned("mark_all_as_read", args, None)
  /\ UNCHANGED <<now, scheduled_notifications, schedule_due>>

\* NotificationManager.mark_all_as_read
mark_all_as_read(args) ==
  /\ \E marked \in {[i \in 1..Len(notifications) |->
                       IF ~Given(args, "category") \/ notifications[i].category = args.category
                       THEN mark_as_read(notifications[i])
                       ELSE notifications[i]]} :
        /\ notifications' = marked
        /\ emitted' = <<NotificationsUpdated(marked)>>
  /\ ret' = Returned("mark_all_as_read", args, None)
  /\ UNCHANGED <<now, scheduled_notifications, schedule_due>>

\* NotificationListItem.on_mark_as_read, for the item of the i-th notification
on_mark_as_read(i) ==
  /\ notifications' = [notifications EXCEPT ![i] = mark_as_read(notifications[i])]
  /\ emitted' = <<>>
  /\ ret' = Returned("on_mark_as_read", [notification_id |-> notifications[i].id], None)
  /\ UNCHANGED <<now, scheduled_notifications, schedule_due>>

\* the list NotificationManager.get_notifications returns
Filtered(delivered, args) ==
  LET by_category == IF Given(args, "category")
                     THEN SelectSeq(delivered, LAMBDA n : n.category = args.category)
                     ELSE delivered
  IN  IF Get(args, "unread_only", FALSE)
      THEN SelectSeq(by_category, LAMBDA n : ~n.read)
      ELSE by_category

\* NotificationManager.get_notifications
get_notifications(args) ==
  /\ ret' = Returned("get_notifications", args, [list |-> Filtered(notifications, args)])
  /\ emitted' = <<>>
  /\ UNCHANGED <<now, notifications, scheduled_notifications, schedule_due>>

\* the dict built by NotificationManager.schedule_notification, id(object()) being unique_id
Scheduled(title, message, when, icon, category, data, unique_id) ==
  [title    |-> title,
   message  |-> message,
   when     |-> when,
   icon     |-> icon,
   category |-> category,
   data     |-> OrEmptyDict(data),
   id       |-> <<strftime(when), unique_id>>]

\* NotificationManager.schedule_notification
schedule_notification(op, arg, title, message, when, icon, category, data, unique_id) ==
  LET scheduled == Scheduled(title, message, when, icon, category, data, unique_id)
  IN  /\ Len(scheduled_notifications) < MaxScheduled
      /\ scheduled_notifications' = Append(scheduled_notifications, scheduled)
      /\ emitted' = <<>>
      /\ ret' = Returned(op, arg, scheduled)
      /\ UNCHANGED <<now, notifications, schedule_due>>

\* a scheduling call that returns None
Rejected(op, arg) ==
  /\ emitted' = <<>>
  /\ ret' = Returned(op, arg, None)
  /\ UNCHANGED <<now, notifications, scheduled_notifications, schedule_due>>

\* a variant of the default that adds one to the day of the month
TomorrowMorningSameMonth(t) ==
  LET today == DateTimeNow(t)
  IN  datetime(today.year, today.month, today.day + 1, 7, 0, 0)

\* the default of schedule_weather_notification: 07:00:00 on the day of now + 1 day
TomorrowMorning(t) ==
  LET tomorrow == DtAddDays(DateTimeNow(t), 1)
  IN  datetime(tomorrow.year, tomorrow.month, tomorrow.day, 7, 0, 0)

\* NotificationManager.schedule_weather_notification; when is None when omitted
schedule_weather_notification(weather_data, when, unique_id) ==
  LET at == IF Falsy(when) THEN TomorrowMorning(now) ELSE when
  IN  schedule_notification("schedule_weather_notification",
                            [weather_data |-> weather_data, when |-> when],
                            <<"Weather Forecast for", Get(weather_data, "city", "Unknown")>>,
                            <<"Tomorrow's weather:", Get(weather_data, "description", "Unknown"),
                              Get(weather_data, "temperature", 0)>>,
                            at, None, "weather", [weather_data |-> weather_data], unique_id)

\* the notification time computed by schedule_calendar_notification
NotificationTime(date, time, minutes_before) ==
  DtAddSeconds(datetime(date.year, date.month, date.day, time.hour, time.minute, 0),
               -(minutes_before * 60))

\* a variant of schedule_calendar_notification without the test against the clock
schedule_calendar_notification_any_time(event_data, minutes_before, unique_id) ==
  LET arg   == [event_data |-> event_data, minutes_before |-> minutes_before]
      title == Get(event_data, "title", "Untitled Event")
      date  == Get(event_data, "date", None)
      time  == Get(event_data, "time", None)
  IN  IF Falsy(date) \/ Falsy(time)
      THEN Rejected("schedule_calendar_notification", arg)
      ELSE schedule_notification("schedule_calendar_notification", arg,
                                 <<"Upcoming Event:", title>>,
                                 <<"Event starts in", minutes_before, "minutes">>,
                                 NotificationTime(date, time, minutes_before),
                                 None, "calendar", [event_data |-> event_data], unique_id)

\* NotificationManager.schedule_calendar_notification
schedule_calendar_notification(event_data, minutes_before, unique_id) ==
  LET arg   == [event_data |-> event_data, minutes_before |-> minutes_before]
      title == Get(event_data, "title", "Untitled Event")
      date  == Get(event_data, "date", None)
      time  == Get(event_data, "time", None)
  IN  IF Falsy(date) \/ Falsy(time)
      THEN Rejected("schedule_calendar_notification", arg)
      ELSE IF DtLess(NotificationTime(date, time, minutes_before), DateTimeNow(now))
      THEN Rejected("schedule_calendar_notification", arg)
      ELSE schedule_notification("schedule_calendar_notification", arg,
                                 <<"Upcoming Event:", title>>,
                                 <<"Event starts in", minutes_before, "minutes">>,
                                 NotificationTime(date, time, minutes_before),
                                 None, "calendar", [event_data |-> event_data], unique_id)

\* list.remove(x): without the first element equal to x
RECURSIVE ListRemove(_, _)
ListRemove(seq, x) ==
  IF seq = <<>> THEN <<>>
  ELSE IF Head(seq) = x THEN Tail(seq)
  ELSE <<Head(seq)>> \o ListRemove(Tail(seq), x)

RECURSIVE RemoveAll(_, _)
RemoveAll(seq, to_remove) ==
  IF to_remove = <<>> THEN seq
  ELSE RemoveAll(ListRemove(seq, Head(to_remove)), Tail(to_remove))

\* a variant of the test for a due request that leaves out when = now
IsDueStrict(scheduled, t) == DtLess(scheduled.when, DateTimeNow(t))

\* whether check_scheduled_notifications finds a request due at clock t
IsDue(scheduled, t) == DtLeq(scheduled.when, DateTimeNow(t))

\* a variant of the loop that stops after the first due request
DeliverLoopFirstOnly(i, delivered, out, to_remove, t, addrs) ==
  LET due == {j \in i..Len(scheduled_notifications) : IsDue(scheduled_notifications[j], t)}
  IN  IF due = {}
      THEN [notifications |-> delivered, emitted |-> out, to_remove |-> to_remove]
      ELSE LET j == CHOOSE j \in due : \A k \in due : j <= k
               scheduled == scheduled_notifications[j]
               r == add_notification(delivered, scheduled.title, scheduled.message,
                                     scheduled.icon, scheduled.category, scheduled.data,
                                     t, addrs[j])
           IN  [notifications |-> r.notifications, emitted |-> out \o r.emitted,
                to_remove |-> Append(to_remove, scheduled)]

\* the first loop of check_scheduled_notifications from index i on; addrs gives the
\* address of the notification created for each request
RECURSIVE DeliverLoop(_, _, _, _, _, _)
DeliverLoop(i, delivered, out, to_remove, t, addrs) ==
  IF i > Len(scheduled_notifications)
  THEN [notifications |-> delivered, emitted |-> out, to_remove |-> to_remove]
  ELSE LET scheduled == scheduled_notifications[i]
       IN  IF IsDue(scheduled, t)
           THEN LET r == add_notification(delivered, scheduled.title, scheduled.message,
                                          scheduled.icon, scheduled.category, scheduled.data,
                                          t, addrs[i])
                IN  DeliverLoop(i + 1, r.notifications, out \o r.emitted,
                                Append(to_remove, scheduled), t, addrs)
           ELSE DeliverLoop(i + 1, delivered, out, to_remove, t, addrs)

DueCount(t) ==
  Cardinality({i \in 1..Len(scheduled_notifications) : IsDue(scheduled_notifications[i], t)})

\* free addresses for the notifications of the due requests, pairwise different
Allocations ==
  {addrs \in [{i \in 1..Len(scheduled_notifications) : IsDue(scheduled_notifications[i], now)}
                -> Addresses \ Live(notifications)] :
     \A i, j \in DOMAIN addrs : i # j => addrs[i] # addrs[j]}

\* NotificationManager.check_scheduled_notifications, on the timeout of schedule_timer
check_scheduled_notifications ==
  /\ schedule_due <= now
  /\ Len(notifications) + DueCount(now) <= MaxDelivered
  /\ \E addrs \in Allocations :
       \E r \in {DeliverLoop(1, notifications, <<>>, <<>>, now, addrs)} :
         /\ notifications' = r.notifications
         /\ scheduled_notifications' = RemoveAll(scheduled_notifications, r.to_remove)
         /\ emitted' = r.emitted
  /\ schedule_due' = now + ScheduleInterval
  /\ ret' = Returned("check_scheduled_notifications", None, None)
  /\ UNCHANGED now

\* a variant of cancel_scheduled_notification that takes every request with the id
\* out of the queue
cancel_scheduled_notification_all(notification_id) ==
  /\ IF \E i \in 1..Len(scheduled_notifications) : scheduled_notifications[i].id = notification_id
     THEN /\ scheduled_notifications' =
               SelectSeq(scheduled_notifications, LAMBDA r : r.id # notification_id)
          /\ ret' = Returned("cancel_scheduled_notification", [notification_id |-> notification_id], True)
     ELSE /\ UNCHANGED scheduled_notifications
          /\ ret' = Returned("cancel_scheduled_notification", [notification_id |-> notification_id], False)
  /\ emitted' = <<>>
  /\ UNCHANGED <<now, notifications, schedule_due>>

\* NotificationManager.cancel_scheduled_notification
cancel_scheduled_notification(notification_id) ==
  /\ IF \E i \in 1..Len(scheduled_notifications) : scheduled_notifications[i].id = notification_id
     THEN /\ scheduled_notifications' =
               Pop(scheduled_notifications, IndexOfId(scheduled_notifications, notification_id))
          /\ ret' = Returned("cancel_scheduled_notification", [notification_id |-> notification_id], True)
     ELSE /\ UNCHANGED scheduled_notifications
          /\ ret' = Returned("cancel_scheduled_notification", [notification_id |-> notification_id], False)
  /\ emitted' = <<>>
  /\ UNCHANGED <<now, notifications, schedule_due>>

\* clock readings at construction: 2023-12-31 23:58:00 and 2024-01-01 14:00:30
NotifStarts ==
  { 0 * SecondsPerDay + 23 * 3600 + 58 * 60,
    1 * SecondsPerDay + 14 * 3600 + 30 }

\* clock readings at which a weather record arrives: 2023-12-31 23:59:00,
\* 2024-01-01 14:00:00, 2024-02-28 06:00:00, 2024-02-29 06:59:59, 2024-03-31 07:00:00,
\* 2024-04-30 23:59:59, 2024-12-31 00:00:00, 2025-02-28 12:00:00
WeatherStarts ==
  { 0 * SecondsPerDay + 23 * 3600 + 59 * 60,
    1 * SecondsPerDay + 14 * 3600,
    59 * SecondsPerDay + 6 * 3600,
    60 * SecondsPerDay + 6 * 3600 + 59 * 60 + 59,
    91 * SecondsPerDay + 7 * 3600,
    121 * SecondsPerDay + 23 * 3600 + 59 * 60 + 59,
    366 * SecondsPerDay,
    425 * SecondsPerDay + 12 * 3600 }

\* the clock reading at which the run that reads t began
StartOf(t) ==
  CHOOSE s \in NotifStarts \cup WeatherStarts : s <= t /\ t <= s + NotifTicks * ScheduleInterval

\* the wall clock moves on by one schedule interval
AdvanceSchedule ==
  /\ now + ScheduleInterval <= StartOf(now) + NotifTicks * ScheduleInterval
  /\ now' = now + ScheduleInterval
  /\ emitted' = <<>>
  /\ ret' = Returned("none", None, None)
  /\ UNCHANGED notif_vars

\* the beginning of the minute of a datetime
MinuteOf(dt) == datetime(dt.year, dt.month, dt.day, dt.hour, dt.minute, 0)

\* when, as the callers of schedule_notification pass it: two schedule intervals
\* after the start of the run
WhenInputs == {DtAddSeconds(DateTimeNow(StartOf(now)), 2 * ScheduleInterval)}

\* what id(object()) may return
UniqueIds == {1, 2}

WeatherInputs == {[city |-> "Oslo", description |-> "rain", temperature |-> 3], [x \in {} |-> 0]}

\* an event k minutes after the minute in which the run began
EventAfter(k) ==
  LET dt == DtAddSeconds(MinuteOf(DateTimeNow(StartOf(now))), k * 60)
  IN  [title |-> "Standup",
       date  |-> [year |-> dt.year, month |-> dt.month, day |-> dt.day],
       time  |-> [hour |-> dt.hour, minute |-> dt.minute]]

EventInputs ==
  {EventAfter(k) : k \in {14, 16}}
    \cup {[title |-> "Standup", time |-> EventAfter(16).time],
          [title |-> "Standup", date |-> EventAfter(16).date],
          [EventAfter(16) EXCEPT !.date = NullDate]}

MinutesBeforeInputs == {15}

ScheduledIds ==
  {scheduled_notifications[i].id : i \in 1..Len(scheduled_notifications)} \cup {<<strftime(Epoch), 1>>}

\* the notification MainWindow.on_alarm_triggered adds for the alarm "Gym" of 08:00:
\* title, message, icon, category and data
AlarmNotifications ==
  { <<<<"Alarm">>, <<"Alarm at", toString(QTime(8, 0)), " - ", "Gym", "is ringing!">>,
      [icon |-> "Information"], "alarm", None>> }

\* the ids a caller of remove_notification passes: of a notification of the list,
\* or of one that is not in it
NotificationIds ==
  {notifications[i].id : i \in 1..Len(notifications)} \cup {<<strftime(Epoch), 1>>}

NotifInitAt(starts) ==
  /\ now \in starts
  /\ Construct(now, NoFile)
  /\ rung = {}
  /\ io_failures = 0
  /\ notifications = <<>>
  /\ scheduled_notifications = <<>>
  /\ schedule_due = now + ScheduleInterval
  /\ stack = <<>>
  /\ NoThreads

\* The notification manager over NotifTicks schedule intervals.
NotifNext ==
  /\ \/ \E when \in WhenInputs, unique_id \in UniqueIds :
          schedule_notification("schedule_notification", [when |-> when], <<"Reminder">>, <<"Call back">>, when,
                                None, "general", [x \in {} |-> 0], unique_id)
     \/ \E event_data \in EventInputs, minutes_before \in MinutesBeforeInputs, unique_id \in UniqueIds :
          schedule_calendar_notification(event_data, minutes_before, unique_id)
     \/ \E notification_id \in ScheduledIds : cancel_scheduled_notification(notification_id)
     \/ check_scheduled_notifications
     \/ AdvanceSchedule
  /\ UNCHANGED <<alarm_vars, window_vars>>

NotifSpec == NotifInitAt(NotifStarts) /\ [][NotifNext]_vars

\* The delivered list and the pending queue over NotifTicks schedule intervals.
InboxNext ==
  /\ \/ \E n \in AlarmNotifications : AddNotificationCall(n[1], n[2], n[3], n[4], n[5])
     \/ \E notification_id \in NotificationIds : remove_notification(notification_id)
     \/ \E when \in WhenInputs, unique_id \in UniqueIds :
          schedule_notification("schedule_notification", [when |-> when], <<"Reminder">>, <<"Call back">>, when,
                                None, "general", [x \in {} |-> 0], unique_id)
     \/ \E notification_id \in ScheduledIds : cancel_scheduled_notification(notification_id)
     \/ check_scheduled_notifications
     \/ AdvanceSchedule
  /\ UNCHANGED <<alarm_vars, window_vars>>

InboxSpec == NotifInitAt(NotifStarts) /\ [][InboxNext]_vars

\* Weather records arriving at the readings of WeatherStarts.
WeatherNext ==
  /\ \/ \E weather_data \in WeatherInputs, when \in {None} \cup WhenInputs, unique_id \in UniqueIds :
          schedule_weather_notification(weather_data, when, unique_id)
     \/ \E notification_id \in ScheduledIds : cancel_scheduled_notification(notification_id)
  /\ UNCHANGED <<alarm_vars, window_vars>>

WeatherSpec == NotifInitAt(WeatherStarts) /\ [][WeatherNext]_vars

\* The scheduler over MaxTicks check intervals, every write of the file succeeding.
Next ==
  \/ \E alarm \in NewAlarms : add_alarm(alarm, "ok")
  \/ \E alarm_id \in KnownIds : remove_alarm(alarm_id, "ok")
  \/ \E alarm_id \in KnownIds : toggle_alarm(alarm_id, "ok")
  \/ check_alarms
  \/ \E alarm_id \in DOMAIN active_alarms : DismissTimeout(alarm_id)
  \/ Restart
  \/ Advance(MaxTicks)

Spec == Init /\ [][Next]_vars

\* The alarm list and its file over StoreTicks check intervals, up to MaxIoFailures
\* writes failing: the callers' operations and the restarts of the application.
StoreNext ==
  \/ \E alarm \in NewAlarms, io \in IoOutcomes : add_alarm(alarm, io)
  \/ \E alarm_id \in KnownIds, io \in IoOutcomes : remove_alarm(alarm_id, io)
  \/ \E alarm_id \in KnownIds, io \in IoOutcomes : toggle_alarm(alarm_id, io)
  \/ Restart
  \/ Advance(StoreTicks)

StoreSpec == Init /\ [][StoreNext]_vars

\* the optional arguments the callers pass
CategoryArgs == {EmptyMap, [category |-> "alarm"]}
FilterArgs ==
  {EmptyMap, [unread_only |-> TRUE], [category |-> "general", unread_only |-> TRUE]}

\* the clock reading at construction: 2024-01-01 14:00:30
ListStarts == {1 * SecondsPerDay + 14 * 3600 + 30}

\* The delivered list with its categories and read flags over NotifTicks schedule
\* intervals: notifications of alarms, delivered reminders, and the operations on
\* the list.
ListNext ==
  /\ \/ \E n \in AlarmNotifications : AddNotificationCall(n[1], n[2], n[3], n[4], n[5])
     \/ \E when \in WhenInputs :
          schedule_notification("schedule_notification", [when |-> when], <<"Reminder">>, <<"Call back">>, when,
                                None, "general", [x \in {} |-> 0], 1)
     \/ check_scheduled_notifications
     \/ \E args \in CategoryArgs : clear_notifications(args)
     \/ \E args \in CategoryArgs : mark_all_as_read(args)
     \/ \E i \in 1..Len(notifications) : on_mark_as_read(i)
     \/ \E args \in FilterArgs : get_notifications(args)
     \/ AdvanceSchedule
  /\ UNCHANGED <<alarm_vars, window_vars>>

ListSpec == NotifInitAt(ListStarts) /\ [][ListNext]_vars

\* the message MainWindow.on_alarm_triggered builds
AlarmMessage(alarm) ==
  <<"Alarm at", toString(alarm.time), IF alarm.label # "" THEN " - " ELSE "", alarm.label, "is ringing!">>

\* the index of the first alarm from i on that the loop of check_alarms triggers, 0
\* when it triggers none
NextTrigger(i, current_time, act) ==
  LET due == {j \in i..Len(alarms) : ShouldTrigger(alarms[j], current_time, act)}
  IN  IF due = {} THEN 0 ELSE CHOOSE j \in due : \A k \in due : j <= k

\* The loop of check_alarms from index i on while the main window is visible, up to
\* the point where it ends or stops inside a handler: trigger_alarm emits
\* alarm_triggered, MainWindow.on_alarm_triggered adds its notification and opens the
\* message box, whose event loop runs until the box is closed.  frames are the polls
\* already waiting.
RunUntilBox(i, current_time, act, frames) ==
  /\ active_alarms' = act
  /\ \E j \in {NextTrigger(i, current_time, act)} :
       IF j = 0
       THEN /\ stack' = frames
            /\ emitted' = <<>>
            /\ UNCHANGED <<notifications, rung>>
       ELSE /\ Len(notifications) < MaxDelivered
            /\ \E addr \in Addresses \ Live(notifications) :
                 \E r \in {add_notification(notifications, <<"Alarm">>, AlarmMessage(alarms[j]),
                                            [icon |-> "Information"], "alarm", None, now, addr)} :
                    /\ notifications' = r.notifications
                    /\ emitted' = <<AlarmTriggered(alarms[j])>> \o r.emitted
            /\ stack' = Append(frames, [alarm |-> alarms[j], index |-> j, current_time |-> current_time])
            /\ rung' = rung \cup {alarms[j].id}

\* AlarmManager.check_alarms on the timeout of check_timer, dispatched by the event
\* loop of the application or by the one of an open message box
check_alarms_visible ==
  /\ EarliestDue(check_due)
  /\ Len(stack) < MaxNested
  /\ check_due' = now + CheckInterval
  /\ RunUntilBox(1, CurrentTime(now), active_alarms, stack)
  /\ ret' = Returned("check_alarms", None, None)
  /\ UNCHANGED <<now, alarms, alarms_file, io_failures, scheduled_notifications, schedule_due, thread_vars>>

\* the user closes the message box on top: on_alarm_triggered returns into
\* trigger_alarm, which starts the dismiss timer, and the loop of that poll goes on
message_box_closed ==
  /\ stack # <<>>
  /\ \E f \in {stack[Len(stack)]} :
       /\ RunUntilBox(f.index + 1, f.current_time,
                      trigger_alarm(f.alarm, active_alarms, now).active,
                      SubSeq(stack, 1, Len(stack) - 1))
       /\ ret' = Returned("on_alarm_triggered", [alarm |-> f.alarm], None)
  /\ UNCHANGED <<now, alarms, alarms_file, check_due, io_failures, scheduled_notifications, schedule_due,
                 thread_vars>>

\* The scheduler with the main window visible over ModalTicks check intervals: every
\* handler of alarm_triggered waits in its message box, at most MaxNested of them at
\* a time; alarms are added while no box is open.
ModalNext ==
  \/ stack = <<>> /\ \E alarm \in NewAlarms : add_alarm(alarm, "ok")
  \/ check_alarms_visible
  \/ message_box_closed
  \/ \E alarm_id \in DOMAIN active_alarms : DismissTimeout(alarm_id)
  \/ Advance(ModalTicks)

ModalSpec == Init /\ [][ModalNext]_vars

\* the event loop has dispatched every timer of the manager that is due
Timely ==
  /\ check_due > now
  /\ \A x \in DOMAIN active_alarms : active_alarms[x] > now

\* the wall clock moves on by one check interval, within the first ticks check
\* intervals after 07:59:50 of the day, the event loop running
AdvanceOfDay(ticks) ==
  /\ Timely
  /\ (now % SecondsPerDay) + CheckInterval <= EndOfTime(ticks)
  /\ now' = now + CheckInterval
  /\ rung' = IF CurrentTime(now') = CurrentTime(now) THEN rung ELSE {}
  /\ emitted' = <<>>
  /\ ret' = Returned("none", None, None)
  /\ UNCHANGED <<alarms, active_alarms, alarms_file, check_due, io_failures, notif_vars, window_vars>>

\* whether the minute of an enabled alarm lies between the clock reading t and
\* 07:59:50 of the next day
DueBeforeTomorrow(alarm, t) ==
  /\ alarm.enabled
  /\ \/ alarm.time.hour * 3600 + alarm.time.minute * 60 + 60 > (t % SecondsPerDay)
     \/ alarm.time.hour * 3600 + alarm.time.minute * 60 <= StartAlarm

\* The hours until 07:59:50 of the next day, the event loop running and the minute
\* of no enabled alarm among them: the polls of these hours trigger nothing and
\* leave all but check_timer as it is, and every dismiss timer that expires calls
\* dismiss_alarm.
Overnight ==
  /\ Timely
  /\ now % SecondsPerDay = EndOfTime(DailyTicks)
  /\ now \div SecondsPerDay < MaxDays - 1
  /\ \A i \in 1..Len(alarms) : ~DueBeforeTomorrow(alarms[i], now)
  /\ now' = now + SecondsPerDay - DailyTicks * CheckInterval
  /\ active_alarms' = [x \in {y \in DOMAIN active_alarms : active_alarms[y] > now'} |-> active_alarms[x]]
  /\ check_due' = now' + (check_due - now)
  /\ rung' = {}
  /\ emitted' = <<>>
  /\ ret' = Returned("none", None, None)
  /\ UNCHANGED <<alarms, alarms_file, io_failures, notif_vars, window_vars>>

\* The scheduler over MaxDays days, observed each day for DailyTicks check intervals
\* from 07:59:50 on, the event loop running all the time.
DailyNext ==
  \/ \E alarm \in NewAlarms : add_alarm(alarm, "ok")
  \/ \E alarm_id \in KnownIds : remove_alarm(alarm_id, "ok")
  \/ \E alarm_id \in KnownIds : toggle_alarm(alarm_id, "ok")
  \/ check_alarms
  \/ \E alarm_id \in DOMAIN active_alarms : DismissTimeout(alarm_id)
  \/ AdvanceOfDay(DailyTicks)
  \/ Overnight

DailySpec == Init /\ [][DailyNext]_vars

(***************************************************************************)
(* The thread-per-alarm variant: main.py at the top of the repository.     *)
(***************************************************************************)
\* time.sleep(1) in AlarmThread.run
SleepSeconds == 1

\* threads ever started, and seconds of clock observed
MaxThreads == 2
ThreadTicks == 2

\* the clock at the start: 07:59:59
ThreadStarts == {8 * 3600 - SleepSeconds}

\* what the user sets in the time input
AlarmTimes == {QTime(8, 0), QTime(8, 1)}

\* str.startswith
startswith(text, prefix) ==
  Len(text) >= Len(prefix) /\ SubSeq(text, 1, Len(prefix)) = prefix

\* list.pop(index), index counted from 0
pop(seq, index) == SubSeq(seq, 1, index) \o SubSeq(seq, index + 2, Len(seq))

\* AlarmThread.__init__ and start(): the thread is about to test its loop condition.
\* emits counts its emissions of alarm_signal.
AlarmThread(alarm_time) ==
  [alarm_time |-> alarm_time, is_running |-> TRUE, pc |-> "while", wake |-> 0, emits |-> 0]

\* AlarmThread.stop
stop(thread) == [thread EXCEPT !.is_running = FALSE]

\* WeatherAlarmApp.add_alarm, the slot of alarm_added
WeatherAlarmApp_add_alarm(alarm_time) ==
  /\ app_alarms' = Append(app_alarms, alarm_time)
  /\ threads' = Append(threads, AlarmThread(alarm_time))
  /\ alarm_threads' = Append(alarm_threads, Len(threads) + 1)

\* AlarmWidget.on_add_alarm
on_add_alarm(alarm_time) ==
  /\ Len(threads) < MaxThreads
  /\ \E alarm_text \in {toString(alarm_time)} :
       IF \E i \in 1..Len(alarms_list) : startswith(alarms_list[i], alarm_text)
       THEN UNCHANGED <<alarms_list, app_alarms, alarm_threads, threads>>
       ELSE /\ alarms_list' = Append(alarms_list, alarm_text)
            /\ WeatherAlarmApp_add_alarm(alarm_time)
  /\ ret' = Returned("on_add_alarm", [alarm_time |-> alarm_time], None)
  /\ UNCHANGED <<now, alarm_vars, notif_vars, emitted, stack, posted>>

\* WeatherAlarmApp.delete_alarm, the slot of alarm_deleted.  alarms.pop raises
\* IndexError for an index beyond alarms, after the thread has been stopped and
\* taken off alarm_threads.
WeatherAlarmApp_delete_alarm(index) ==
  IF index < Len(alarm_threads)
  THEN /\ threads' = [threads EXCEPT ![alarm_threads[index + 1]] = stop(@)]
       /\ alarm_threads' = pop(alarm_threads, index)
       /\ IF index < Len(app_alarms)
          THEN /\ app_alarms' = pop(app_alarms, index)
               /\ ret' = Returned("on_delete_alarm", [index |-> index], None)
          ELSE /\ UNCHANGED app_alarms
               /\ ret' = Raised("on_delete_alarm", [index |-> index])
  ELSE /\ UNCHANGED <<threads, alarm_threads, app_alarms>>
       /\ ret' = Returned("on_delete_alarm", [index |-> index], None)

\* AlarmWidget.on_delete_alarm with the row index selected (the list selects one
\* row at a time), or with no row selected (index = -1)
on_delete_alarm(index) ==
  /\ IF index = -1
     THEN /\ UNCHANGED <<alarms_list, threads, alarm_threads, app_alarms>>
          /\ ret' = Returned("on_delete_alarm", [index |-> index], None)
     ELSE /\ alarms_list' = pop(alarms_list, index)
          /\ WeatherAlarmApp_delete_alarm(index)
  /\ UNCHANGED <<now, alarm_vars, notif_vars, emitted, stack, posted>>

\* AlarmWidget.remove_triggered_alarm: the row it takes off the list, or -1
remove_triggered_alarm(list, alarm_time) ==
  IF \E i \in 1..Len(list) : startswith(list[i], alarm_time)
  THEN (CHOOSE i \in 1..Len(list) :
          /\ startswith(list[i], alarm_time)
          /\ \A j \in 1..(i - 1) : ~startswith(list[j], alarm_time)) - 1
  ELSE -1

\* WeatherAlarmApp.trigger_alarm, the slot of alarm_signal: the emission was queued
\* by a thread and is delivered by the event loop of the window; the user closes
\* the message box
WeatherAlarmApp_trigger_alarm ==
  /\ posted # <<>>
  /\ posted' = Tail(posted)
  /\ \E index \in {remove_triggered_alarm(alarms_list, Head(posted))} :
       /\ alarms_list' = IF index >= 0 THEN pop(alarms_list, index) ELSE alarms_list
       /\ app_alarms' = IF index >= 0 /\ index < Len(app_alarms)
                          THEN pop(app_alarms, index) ELSE app_alarms
  /\ ret' = Returned("trigger_alarm", [alarm_time |-> Head(posted)], None)
  /\ UNCHANGED <<now, alarm_vars, notif_vars, emitted, stack, alarm_threads, threads>>

\* AlarmThread.run: the test of the loop condition
run_while(th) ==
  /\ threads[th].pc = "while"
  /\ threads' = [threads EXCEPT ![th].pc = IF threads[th].is_running THEN "compare" ELSE "finished"]
  /\ UNCHANGED <<now, alarm_vars, notif_vars, emitted, ret, stack, alarms_list, app_alarms,
                 alarm_threads, posted>>

\* AlarmThread.run: the body of the loop up to the call of time.sleep
run_compare(th) ==
  /\ threads[th].pc = "compare"
  /\ IF toString(CurrentTime(now)) = toString(threads[th].alarm_time)
     THEN /\ posted' = Append(posted, toString(threads[th].alarm_time))
          /\ threads' = [threads EXCEPT ![th].emits = @ + 1, ![th].is_running = FALSE,
                                        ![th].pc = "sleep", ![th].wake = now + SleepSeconds]
     ELSE /\ UNCHANGED posted
          /\ threads' = [threads EXCEPT ![th].pc = "sleep", ![th].wake = now + SleepSeconds]
  /\ UNCHANGED <<now, alarm_vars, notif_vars, emitted, ret, stack, alarms_list, app_alarms,
                 alarm_threads>>

\* AlarmThread.run: time.sleep(1) returns
run_sleep(th) ==
  /\ threads[th].pc = "sleep"
  /\ now >= threads[th].wake
  /\ threads' = [threads EXCEPT ![th].pc = "while", ![th].wake = 0]
  /\ UNCHANGED <<now, alarm_vars, notif_vars, emitted, ret, stack, alarms_list, app_alarms,
                 alarm_threads, posted>>

\* the wall clock moves on by a second
Tick ==
  /\ \A start \in ThreadStarts : now < start + ThreadTicks * SleepSeconds
  /\ now' = now + SleepSeconds
  /\ UNCHANGED <<alarm_vars, notif_vars, emitted, ret, window_vars>>

\* The window of the variant and its threads over ThreadTicks seconds.
ThreadNext ==
  \/ \E alarm_time \in AlarmTimes : on_add_alarm(alarm_time)
  \/ \E index \in -1..(Len(alarms_list) - 1) : on_delete_alarm(index)
  \/ WeatherAlarmApp_trigger_alarm
  \/ \E th \in 1..Len(threads) : run_while(th)
  \/ \E th \in 1..Len(threads) : run_compare(th)
  \/ \E th \in 1..Len(threads) : run_sleep(th)
  \/ Tick

ThreadSpec == NotifInitAt(ThreadStarts) /\ [][ThreadNext]_vars

\* a call of dismiss_alarm with an id that is not in active_alarms
DismissUnknown(alarm_id) ==
  /\ alarm_id \notin DOMAIN active_alarms
  /\ dismiss_alarm(alarm_id)

\* whether the clock reads a time of one of the runs that begin at NotifStarts
InNotifRun ==
  \E s \in NotifStarts : s <= now /\ now <= s + NotifTicks * ScheduleInterval

\* Both managers, their callers passing ids of alarms, notifications and requests
\* that are there and ids of ones that are not: runs that begin at StartAlarm and
\* go on for UnknownTicks check intervals, in which the alarm manager is called, and
\* runs that begin at NotifStarts, in which the notification manager is called.
UnknownIdNext ==
  \/ /\ ~InNotifRun
     /\ \/ \E alarm \in NewAlarms : add_alarm(alarm, "ok")
        \/ \E alarm_id \in KnownIds : remove_alarm(alarm_id, "ok")
        \/ \E alarm_id \in KnownIds : toggle_alarm(alarm_id, "ok")
        \/ check_alarms
        \/ \E alarm_id \in DOMAIN active_alarms : DismissTimeout(alarm_id)
        \/ \E alarm_id \in KnownIds \cup rung : DismissUnknown(alarm_id)
        \/ Advance(UnknownTicks)
  \/ /\ InNotifRun
     /\ InboxNext

UnknownIdSpec == (Init \/ NotifInitAt(NotifStarts)) /\ [][UnknownIdNext]_vars

\* The scheduler over LiveTicks check intervals, the clock going on and the event
\* loop dispatching every timer that is due.
LiveNext ==
  \/ \E alarm \in NewAlarms : add_alarm(alarm, "ok")
  \/ \E alarm_id \in KnownIds : remove_alarm(alarm_id, "ok")
  \/ \E alarm_id \in KnownIds : toggle_alarm(alarm_id, "ok")
  \/ check_alarms
  \/ \E alarm_id \in DOMAIN active_alarms : DismissTimeout(alarm_id)
  \/ Restart
  \/ Advance(LiveTicks)

LiveSpec ==
  /\ Init
  /\ [][LiveNext]_vars
  /\ WF_vars(Advance(LiveTicks))
  /\ WF_vars(check_alarms)
  /\ WF_vars(\E alarm_id \in DOMAIN active_alarms : DismissTimeout(alarm_id))

(***************************************************************************)
(* Properties.                                                             *)
(***************************************************************************)
\* whether some alarm of seq is set at the time of alarm
HasTimeOf(seq, alarm) == \E i \in 1..Len(seq) : seq[i].time = alarm.time

\* C1: add_alarm of an alarm whose hour and minute equal those of an alarm of the
\* sequence returns false, leaves the sequence, the file and the ringing set as they
\* were and emits nothing, whatever the other fields of the two alarms are; when no
\* alarm of the sequence is set at that time, the alarm is appended at the end and
\* add_alarm returns true.
AddAlarmDedup ==
  [][ret'.op = "add_alarm" =>
        IF HasTimeOf(alarms, ret'.arg.alarm)
        THEN /\ ret'.val = False
             /\ ~ret'.raised
             /\ alarms' = alarms
             /\ alarms_file' = alarms_file
             /\ active_alarms' = active_alarms
             /\ emitted' = <<>>
        ELSE /\ ret'.val = True
             /\ ~ret'.raised
             /\ alarms' = Append(alarms, ret'.arg.alarm)]_vars

\* add_alarm has refused an alarm that differs in id, label and auto_dismiss from the
\* alarm of the same time, while an alarm was ringing
AddAlarmDedupWitness ==
  /\ ret.op = "add_alarm"
  /\ ret.val = False
  /\ active_alarms # EmptyMap
  /\ \E i \in 1..Len(alarms) :
        /\ alarms[i].time = ret.arg.alarm.time
        /\ alarms[i].id # ret.arg.alarm.id
        /\ alarms[i].label # ret.arg.alarm.label
        /\ alarms[i].auto_dismiss # ret.arg.alarm.auto_dismiss

\* C2: an enabled alarm set at the minute the clock reads is triggered exactly once
\* by the polls of that minute: by the first of them, and by no later one, whatever
\* its auto_dismiss and duration are.
DueTriggerOnce ==
  [][ret'.op = "check_alarms" =>
        \A i \in 1..Len(alarms) :
           (alarms[i].enabled /\ alarms[i].time = CurrentTime(now)) =>
              Triggers(emitted', alarms[i].id) = (IF alarms[i].id \in rung THEN 0 ELSE 1)]_vars

\* C3: no step triggers an alarm that is disabled, whatever the clock reads, and no
\* step puts the id of a disabled alarm into the ringing set.
DisabledNeverFires ==
  [][/\ \A k \in 1..Len(emitted') :
           emitted'[k].sig = "alarm_triggered" => emitted'[k].alarm.enabled
     /\ \A i \in 1..Len(alarms) :
           ~alarms[i].enabled =>
              /\ Triggers(emitted', alarms[i].id) = 0
              /\ alarms[i].id \in DOMAIN active_alarms' => alarms[i].id \in DOMAIN active_alarms]_vars

\* a poll at the minute of a disabled alarm has left it alone
DisabledNeverFiresWitness ==
  /\ ret.op = "check_alarms"
  /\ \E i \in 1..Len(alarms) :
        /\ ~alarms[i].enabled
        /\ alarms[i].time = CurrentTime(now)
        /\ alarms[i].id \notin DOMAIN active_alarms
        /\ Triggers(emitted, alarms[i].id) = 0

\* the ids alarms of the model can have
ModelIds ==
  {StoredAlarm.id} \cup {Alarm(f[1], f[2], f[3], f[4], f[5], t).id : f \in Forms, t \in AddInstants}

SameContent(n, r) ==
  /\ n.title = r.title
  /\ n.message = r.message
  /\ n.icon = r.icon
  /\ n.category = r.category
  /\ n.data = r.data

\* the requests of seq whose when is after the clock reading t, in order
Pending(seq, t) == SelectSeq(seq, LAMBDA r : DtLess(DateTimeNow(t), r.when))

\* the notifications a list of signals delivers, in order
Delivered(out) ==
  LET added == SelectSeq(out, LAMBDA e : e.sig = "notification_added")
  IN  [k \in 1..Len(added) |-> added[k].notification]

\* C5: a request scheduled for T is delivered by no step before the clock reads T;
\* the first poll made when the clock reads T or later delivers exactly one
\* notification for it, with the request's content, and takes the request out of
\* the pending queue, so that no later poll delivers it again.
DeferredDelivery ==
  [][/\ ret'.op = "check_scheduled_notifications" =>
          /\ scheduled_notifications' = Pending(scheduled_notifications, now)
          /\ notifications' = notifications \o Delivered(emitted')
          /\ Len(Delivered(emitted')) + Len(scheduled_notifications') = Len(scheduled_notifications)
          /\ \A j \in 1..Len(scheduled_notifications) :
                Cardinality({k \in 1..Len(Delivered(emitted')) :
                               SameContent(Delivered(emitted')[k], scheduled_notifications[j])})
                  = Cardinality({i \in 1..Len(scheduled_notifications) :
                                   /\ ~DtLess(DateTimeNow(now), scheduled_notifications[i].when)
                                   /\ SameContent(scheduled_notifications[i], scheduled_notifications[j])})
     /\ ret'.op \in {"schedule_notification", "schedule_calendar_notification",
                     "schedule_weather_notification", "cancel_scheduled_notification", "none"} =>
          /\ notifications' = notifications
          /\ emitted' = <<>>]_vars

\* a poll has delivered a request whose when is the very reading of the clock, and has
\* kept another request that is not due yet
DeferredDeliveryWitness ==
  /\ ret.op = "check_scheduled_notifications"
  /\ Len(Delivered(emitted)) = 1
  /\ Delivered(emitted)[1].timestamp = DateTimeNow(now)
  /\ \E i \in 1..Len(notifications) : notifications[i] = Delivered(emitted)[1]
  /\ scheduled_notifications # <<>>
  /\ \A i \in 1..Len(scheduled_notifications) : DtLess(DateTimeNow(now), scheduled_notifications[i].when)
  /\ now = 23 * 3600 + 59 * 60

\* whether event_data has a date and a time
HasDateAndTime(event_data) ==
  /\ "date" \in DOMAIN event_data
  /\ "time" \in DOMAIN event_data
  /\ event_data["date"] \notin {None, NullDate}
  /\ event_data["time"] \notin {None, NullTime}

\* the datetime of an event that has a date and a time
EventDateTime(event_data) ==
  datetime(event_data["date"].year, event_data["date"].month, event_data["date"].day,
           event_data["time"].hour, event_data["time"].minute, 0)

\* C6: schedule_calendar_notification appends nothing and returns None when the event
\* has no date or no time, or when the event's datetime minus minutes_before is
\* earlier than the clock; otherwise it appends, at the end of the pending queue, a
\* request of category "calendar" whose when is the event's datetime minus
\* minutes_before, and returns it.  No request it appends has a when that is in
\* the past when it is appended.
CalendarPastDueRejected ==
  [][ret'.op = "schedule_calendar_notification" =>
        LET event_data == ret'.arg.event_data
            lead == ret'.arg.minutes_before * 60
        IN  IF \/ ~HasDateAndTime(event_data)
               \/ DtLess(EventDateTime(event_data), DtAddSeconds(DateTimeNow(now), lead))
            THEN /\ ret'.val = None
                 /\ scheduled_notifications' = scheduled_notifications
                 /\ notifications' = notifications
                 /\ emitted' = <<>>
            ELSE /\ scheduled_notifications' = Append(scheduled_notifications, ret'.val)
                 /\ ret'.val.category = "calendar"
                 /\ DtAddSeconds(ret'.val.when, lead) = EventDateTime(event_data)
                 /\ DtLeq(DateTimeNow(now), ret'.val.when)
                 /\ notifications' = notifications]_vars

\* an event with a date and a time has been refused after its notification time had
\* gone by, the same event having been accepted earlier
CalendarPastDueRejectedWitness ==
  /\ ret.op = "schedule_calendar_notification"
  /\ ret.val = None
  /\ HasDateAndTime(ret.arg.event_data)
  /\ \E i \in 1..Len(scheduled_notifications) :
        /\ scheduled_notifications[i].category = "calendar"
        /\ scheduled_notifications[i].data.event_data = ret.arg.event_data
        /\ DtLess(scheduled_notifications[i].when, DateTimeNow(now))

\* the lengths of the months
DaysInMonth(y, m) ==
  CASE m \in {1, 3, 5, 7, 8, 10, 12} -> 31
    [] m \in {4, 6, 9, 11} -> 30
    [] OTHER -> IF IsLeap(y) THEN 29 ELSE 28

\* the calendar day after the day of dt
NextCalendarDay(dt) ==
  IF dt.day < DaysInMonth(dt.year, dt.month)
  THEN [year |-> dt.year, month |-> dt.month, day |-> dt.day + 1]
  ELSE IF dt.month < 12
  THEN [year |-> dt.year, month |-> dt.month + 1, day |-> 1]
  ELSE [year |-> dt.year + 1, month |-> 1, day |-> 1]

\* C7: schedule_weather_notification called without when appends a request of
\* category "weather" whose when is 07:00:00 on the calendar day after the day the
\* clock reads, whatever the time of day is and also on the last day of a month or
\* of a year; called with a when it appends a request with that when.
WeatherDefaultNextMorning ==
  [][ret'.op = "schedule_weather_notification" =>
        /\ scheduled_notifications' = Append(scheduled_notifications, ret'.val)
        /\ ret'.val.category = "weather"
        /\ IF ret'.arg.when = None
           THEN LET day == NextCalendarDay(DateTimeNow(now))
                IN  ret'.val.when = datetime(day.year, day.month, day.day, 7, 0, 0)
           ELSE ret'.val.when = ret'.arg.when]_vars

\* a weather record that arrived at 14:00 on 2024-01-01 without a when is scheduled
\* for 2024-01-02 07:00:00
WeatherDefaultNextMorningWitness ==
  /\ ret.op = "schedule_weather_notification"
  /\ ret.arg.when = None
  /\ DateTimeNow(now) = datetime(2024, 1, 1, 14, 0, 0)
  /\ ret.val.when = datetime(2024, 1, 2, 7, 0, 0)
  /\ scheduled_notifications # <<>>
  /\ scheduled_notifications[Len(scheduled_notifications)] = ret.val

\* what a successful save of seq writes
Written(seq) == JsonFile([i \in 1..Len(seq) |-> to_dict(seq[i])])

\* whether the time of an alarm is a time of day
IsTimeOfDay(time) == time.hour \in 0..23 /\ time.minute \in 0..59

UsableTime(entry) ==
  /\ "time" \in DOMAIN entry
  /\ LET text   == entry["time"]
         colons == {k \in 1..Len(text) : text[k] = ":"}
     IN  /\ colons # {}
         /\ LET first  == CHOOSE k \in colons : \A j \in colons : k <= j
                rest   == colons \ {first}
                second == IF rest = {} THEN Len(text) + 1
                          ELSE CHOOSE k \in rest : \A j \in rest : k <= j
            IN  /\ IsInt(SubSeq(text, 1, first - 1))
                /\ IsInt(SubSeq(text, first + 1, second - 1))

\* C9: loading at start-up never raises; when the file is absent, or is not JSON, or
\* has an entry without a usable time, the alarm sequence is empty afterwards: no
\* entry of the file is kept, and alarms_updated is not emitted.
LoadNeverRaises ==
  ret.op = "__init__" =>
     /\ ~ret.raised
     /\ (\/ alarms_file.kind \in {"absent", "invalid"}
         \/ \E i \in 1..Len(alarms_file.data) : ~UsableTime(alarms_file.data[i]))
           => alarms = <<>> /\ emitted = <<>>

\* a file whose first entry is a good alarm and whose second entry has no time has
\* been loaded
LoadNeverRaisesWitness ==
  /\ ret.op = "__init__"
  /\ alarms_file.kind = "json"
  /\ Len(alarms_file.data) = 2
  /\ UsableTime(alarms_file.data[1])
  /\ ~UsableTime(alarms_file.data[2])
  /\ alarms = <<>>

\* the alarm sequence after the change an operation makes
Changed(op, arg, seq) ==
  CASE op = "add_alarm" -> Append(seq, arg.alarm)
    [] op = "remove_alarm" -> SelectSeq(seq, LAMBDA a : a.id # arg.alarm_id)
    [] op = "toggle_alarm" ->
         [i \in 1..Len(seq) |-> IF seq[i].id = arg.alarm_id
                                THEN [seq[i] EXCEPT !.enabled = ~seq[i].enabled]
                                ELSE seq[i]]

\* C10: when the write of the file fails in add_alarm, remove_alarm or toggle_alarm,
\* no exception reaches the caller, the change of the alarm sequence is kept,
\* alarms_updated is emitted with the changed sequence and the operation returns
\* true as it does when the write succeeds; every save that succeeds, also after a
\* failed one, writes all of the current sequence.
WriteFailureSwallowed ==
  [][/\ io_failures' # io_failures =>
          /\ ret'.op \in {"add_alarm", "remove_alarm", "toggle_alarm"}
          /\ ~ret'.raised
          /\ ret'.val = True
          /\ alarms' = Changed(ret'.op, ret'.arg, alarms)
          /\ alarms' # alarms
          /\ emitted' = <<AlarmsUpdated(alarms')>>
     /\ (/\ io_failures' = io_failures
         /\ ret'.op \in {"add_alarm", "remove_alarm", "toggle_alarm"}
         /\ ret'.val = True) =>
          /\ alarms' = Changed(ret'.op, ret'.arg, alarms)
          /\ emitted' = <<AlarmsUpdated(alarms')>>
          /\ alarms_file' = Written(alarms')]_vars

\* remove_alarm has returned true and has emitted the shorter sequence although its
\* write failed: the file still holds the alarm
WriteFailureSwallowedWitness ==
  /\ ret.op = "remove_alarm"
  /\ ret.val = True
  /\ io_failures = 1
  /\ emitted = <<AlarmsUpdated(alarms)>>
  /\ ret.arg.alarm_id \notin Ids(alarms)
  /\ alarms_file.kind = "json"
  /\ \E i \in 1..Len(alarms_file.data) : alarms_file.data[i].id = ret.arg.alarm_id

\* C11: remove_alarm with an id of the sequence takes out the alarm with that id
\* and no other: the other alarms stay as they were and in the order they had; it
\* writes the remaining sequence to the file, emits alarms_updated once, with the
\* remaining sequence, and returns true.
RemoveAlarmFrame ==
  [][(ret'.op = "remove_alarm" /\ ret'.arg.alarm_id \in Ids(alarms)) =>
        /\ Len(alarms') = Len(alarms) - 1
        /\ alarms' = SelectSeq(alarms, LAMBDA a : a.id # ret'.arg.alarm_id)
        /\ alarms_file' = Written(alarms')
        /\ emitted' = <<AlarmsUpdated(alarms')>>
        /\ ret'.val = True
        /\ ~ret'.raised]_vars

\* remove_alarm has taken the first of several alarms out while it was ringing, and
\* the file holds the remaining ones
RemoveAlarmFrameWitness ==
  /\ ret.op = "remove_alarm"
  /\ ret.val = True
  /\ ret.arg.alarm_id = StoredAlarm.id
  /\ StoredAlarm.id \in DOMAIN active_alarms
  /\ alarms # <<>>
  /\ ret.arg.alarm_id \notin Ids(alarms)
  /\ alarms_file = Written(alarms)

\* C12: toggle_alarm with an id of the sequence negates enabled of the alarm with
\* that id and changes nothing else: its id, time, auto_dismiss, duration, label and
\* position and every other alarm stay; it writes the file, emits alarms_updated and
\* returns true; toggling the same id once more gives the sequence back.
ToggleAlarmFrame ==
  [][(ret'.op = "toggle_alarm" /\ ret'.arg.alarm_id \in Ids(alarms)) =>
        /\ Len(alarms') = Len(alarms)
        /\ \A i \in 1..Len(alarms) :
              IF alarms[i].id = ret'.arg.alarm_id
              THEN /\ alarms'[i].enabled = ~alarms[i].enabled
                   /\ alarms'[i].id = alarms[i].id
                   /\ alarms'[i].time = alarms[i].time
                   /\ alarms'[i].auto_dismiss = alarms[i].auto_dismiss
                   /\ alarms'[i].duration = alarms[i].duration
                   /\ alarms'[i].label = alarms[i].label
              ELSE alarms'[i] = alarms[i]
        /\ Changed("toggle_alarm", ret'.arg, alarms') = alarms
        /\ alarms_file' = Written(alarms')
        /\ emitted' = <<AlarmsUpdated(alarms')>>
        /\ ret'.val = True
        /\ ~ret'.raised]_vars

\* toggle_alarm has enabled the second of two alarms, which was added disabled
ToggleAlarmFrameWitness ==
  /\ ret.op = "toggle_alarm"
  /\ ret.val = True
  /\ Len(alarms) = 2
  /\ alarms[1] = StoredAlarm
  /\ alarms[2].id = ret.arg.alarm_id
  /\ alarms[2].time = QTime(8, 1)
  /\ alarms[2].enabled
  /\ alarms_file = Written(alarms)

\* what the two managers hold
Held ==
  <<alarms, alarms_file, active_alarms, check_due, notifications, scheduled_notifications,
    schedule_due>>

\* C13: remove_alarm and toggle_alarm with an id that no alarm of the sequence has,
\* dismiss_alarm with an id that is not in the ringing set, remove_notification with
\* an id that no delivered notification has and cancel_scheduled_notification with
\* an id that no pending request has raise nothing, leave the alarm sequence, the
\* file, the ringing set, the delivered list and the pending queue as they were and
\* emit nothing; those that return a value return false.
UnknownIdNoOp ==
  [][(\/ ret'.op \in {"remove_alarm", "toggle_alarm"} /\ ret'.arg.alarm_id \notin Ids(alarms)
      \/ ret'.op = "dismiss_alarm" /\ ret'.arg.alarm_id \notin DOMAIN active_alarms
      \/ /\ ret'.op = "remove_notification"
         /\ \A i \in 1..Len(notifications) : notifications[i].id # ret'.arg.notification_id
      \/ /\ ret'.op = "cancel_scheduled_notification"
         /\ \A i \in 1..Len(scheduled_notifications) :
               scheduled_notifications[i].id # ret'.arg.notification_id)
        => /\ Held' = Held
           /\ emitted' = <<>>
           /\ ~ret'.raised
           /\ ret'.val = (IF ret'.op = "dismiss_alarm" THEN None ELSE False)]_vars

\* dismiss_alarm has been called for an alarm that rang in this minute and whose
\* timer has already taken its id out of the ringing set
UnknownIdNoOpWitness ==
  /\ ret.op = "dismiss_alarm"
  /\ ret.arg.alarm_id \in rung
  /\ \E i \in 1..Len(alarms) : alarms[i].id = ret.arg.alarm_id /\ alarms[i].auto_dismiss
  /\ ret.arg.alarm_id \notin DOMAIN active_alarms
  /\ emitted = <<>>

\* C14: a triggered alarm without auto-dismiss has its id in the ringing set after
\* the poll that triggered it, and no timer takes the id out; no later poll of the
\* minute triggers it again.
NoAutoDismissInRingingSet ==
  [][ret'.op = "check_alarms" =>
        /\ \A k \in 1..Len(emitted') :
              (emitted'[k].sig = "alarm_triggered" /\ ~emitted'[k].alarm.auto_dismiss) =>
                 emitted'[k].alarm.id \in DOMAIN active_alarms'
        /\ \A i \in 1..Len(alarms) :
              (~alarms[i].auto_dismiss /\ alarms[i].id \in rung) =>
                 Triggers(emitted', alarms[i].id) = 0]_vars

\* C15: every id of the ringing set is the id of an alarm of the sequence.
RingingIdsAreAlarms == DOMAIN active_alarms \subseteq Ids(alarms)

\* C16 as stated: when the auto-dismiss timer of an alarm expires, the alarm is taken
\* out of the sequence and alarms_updated is emitted with the remaining sequence.
AutoDismissRemovesAlarm ==
  [][(ret'.op = "dismiss_alarm" /\ ret'.arg.alarm_id \in DOMAIN active_alarms) =>
        /\ ret'.arg.alarm_id \notin Ids(alarms')
        /\ emitted' = <<AlarmsUpdated(alarms')>>]_vars

\* C16: when the auto-dismiss timer of an alarm expires, its id is taken out of the
\* ringing set and nothing else happens: the alarm stays in the sequence as it was,
\* the file is not written and no signal is emitted.  While the application runs, an
\* alarm leaves the sequence by remove_alarm only.
AutoDismissKeepsAlarm ==
  [][/\ (ret'.op = "dismiss_alarm" /\ ret'.arg.alarm_id \in DOMAIN active_alarms) =>
          /\ active_alarms' = Drop(active_alarms, ret'.arg.alarm_id)
          /\ alarms' = alarms
          /\ alarms_file' = alarms_file
          /\ emitted' = <<>>
     /\ (Ids(alarms) \ Ids(alarms') # {}) => ret'.op \in {"remove_alarm", "__init__"}]_vars

\* the timer of an auto-dismiss alarm has expired and the alarm, enabled, is still
\* in the sequence and in the file
AutoDismissKeepsAlarmWitness ==
  /\ ret.op = "dismiss_alarm"
  /\ ret.arg.alarm_id \in rung
  /\ ret.arg.alarm_id \notin DOMAIN active_alarms
  /\ now = 8 * 3600 + 10
  /\ \E i \in 1..Len(alarms) :
        /\ alarms[i].id = ret.arg.alarm_id
        /\ alarms[i].auto_dismiss
        /\ alarms[i].enabled
  /\ alarms_file = Written(alarms)

\* the requests of seq whose when is at or before the clock reading t, in order
DueRequests(seq, t) == SelectSeq(seq, LAMBDA r : ~DtLess(DateTimeNow(t), r.when))

\* C17: one poll of the pending queue delivers every request whose when is at or
\* before now, in queue order and however many they are, each by one add_notification
\* (notification_added, then notifications_updated) with the request's title,
\* message, category and data; the requests whose when is after now stay in the
\* queue in their order.
PollDeliversAllInOrder ==
  [][ret'.op = "check_scheduled_notifications" =>
       \E due \in {DueRequests(scheduled_notifications, now)} :
          /\ Len(emitted') = 2 * Len(due)
          /\ Len(notifications') = Len(notifications) + Len(due)
          /\ \A k \in 1..Len(notifications) : notifications'[k] = notifications[k]
          /\ \A k \in 1..Len(due) :
                /\ emitted'[2 * k - 1].sig = "notification_added"
                /\ emitted'[2 * k - 1].notification = notifications'[Len(notifications) + k]
                /\ emitted'[2 * k].sig = "notifications_updated"
                /\ notifications'[Len(notifications) + k].title = due[k].title
                /\ notifications'[Len(notifications) + k].message = due[k].message
                /\ notifications'[Len(notifications) + k].category = due[k].category
                /\ notifications'[Len(notifications) + k].data = due[k].data
          /\ scheduled_notifications' = Pending(scheduled_notifications, now)]_vars

\* one poll has delivered two requests of different kinds, the one scheduled first
\* before the other
PollDeliversAllInOrderWitness ==
  /\ ret.op = "check_scheduled_notifications"
  /\ Len(emitted) = 4
  /\ Len(notifications) = 2
  /\ notifications[1].category = "calendar"
  /\ notifications[2].category = "general"
  /\ notifications[1].timestamp = notifications[2].timestamp
  /\ scheduled_notifications = <<>>

\* how many elements of seq equal x
Count(seq, x) == Cardinality({i \in 1..Len(seq) : seq[i] = x})

AddNotificationAppends ==
  [][ret'.op = "add_notification" =>
       /\ Len(notifications') = Len(notifications) + 1
       /\ SubSeq(notifications', 1, Len(notifications)) = notifications
       /\ \E n \in {notifications'[Len(notifications')]} :
             /\ n.read = FALSE
             /\ n.title = ret'.arg.title
             /\ n.message = ret'.arg.message
             /\ n.category = ret'.arg.category
             /\ n.data = (IF ret'.arg.data = None THEN [x \in {} |-> 0] ELSE ret'.arg.data)
             /\ n.timestamp = DateTimeNow(now)
             /\ \A k \in 1..Len(notifications) : notifications[k].id # n.id
             /\ Len(emitted') = 2
             /\ emitted'[1].sig = "notification_added"
             /\ emitted'[1].notification = n
             /\ emitted'[2].sig = "notifications_updated"
             /\ emitted'[2].notifications = notifications'
             /\ ret'.val = n
       /\ scheduled_notifications' = scheduled_notifications
       /\ schedule_due' = schedule_due]_vars

\* a notification has been added behind one delivered before, with a request pending
AddNotificationAppendsWitness ==
  /\ ret.op = "add_notification"
  /\ Len(notifications) = 2
  /\ notifications[2] = ret.val
  /\ notifications[1] # ret.val
  /\ ~ret.val.read
  /\ Len(emitted) = 2
  /\ emitted[2].sig = "notifications_updated"
  /\ emitted[2].notifications = notifications
  /\ scheduled_notifications # <<>>

\* C20: remove_notification with the id of a delivered notification takes exactly
\* that notification out of the delivered list and keeps the others in order, emits
\* notification_removed with the id and then notifications_updated with the
\* remaining list, and returns True; the pending queue is unchanged.
RemoveNotificationFrame ==
  [][(/\ ret'.op = "remove_notification"
      /\ \E i \in 1..Len(notifications) : notifications[i].id = ret'.arg.notification_id) =>
       /\ Len(notifications') = Len(notifications) - 1
       /\ notifications' = SelectSeq(notifications, LAMBDA n : n.id # ret'.arg.notification_id)
       /\ Len(emitted') = 2
       /\ emitted'[1].sig = "notification_removed"
       /\ emitted'[1].notification_id = ret'.arg.notification_id
       /\ emitted'[2].sig = "notifications_updated"
       /\ emitted'[2].notifications = notifications'
       /\ ret'.val = True
       /\ scheduled_notifications' = scheduled_notifications
       /\ schedule_due' = schedule_due]_vars

\* one of two delivered notifications has been removed while a request is pending
RemoveNotificationFrameWitness ==
  /\ ret.op = "remove_notification"
  /\ ret.val = True
  /\ Len(notifications) = 1
  /\ notifications[1].id # ret.arg.notification_id
  /\ Len(emitted) = 2
  /\ emitted[1].sig = "notification_removed"
  /\ emitted[1].notification_id = ret.arg.notification_id
  /\ scheduled_notifications # <<>>

Addressed(args, n) == "category" \notin DOMAIN args \/ n.category = args.category

MinuteStart(time, t) == (t \div SecondsPerDay) * SecondsPerDay + time.hour * 3600 + time.minute * 60

\* whether the alarm was created before the run reached 08:00
CreatedBeforeEight(alarm) ==
  alarm.id[2] \in {strftime(DateTimeNow(0)), strftime(DateTimeNow(StartAlarm))}

\* C23: an enabled alarm whose minute has gone by without a poll (the last poll, or
\* the construction, was before the minute began and the clock now reads a later
\* minute) is triggered by the first poll made afterwards.
OverdueFiredByNextPoll ==
  [][ret'.op = "check_alarms" =>
       \A i \in 1..Len(alarms) :
          (/\ alarms[i].enabled
           /\ CreatedBeforeEight(alarms[i])
           /\ alarms[i].id \notin DOMAIN active_alarms
           /\ check_due - CheckInterval < MinuteStart(alarms[i].time, now)
           /\ MinuteStart(alarms[i].time, now) + 60 <= now)
             => Triggers(emitted', alarms[i].id) = 1]_vars

\* C24: no two alarms of the sequence have the same hour and minute, and no two have
\* the same id.
NoTwoAlarmsOfOneTime ==
  \A i, j \in 1..Len(alarms) :
     i # j => /\ ~(alarms[i].time.hour = alarms[j].time.hour
                    /\ alarms[i].time.minute = alarms[j].time.minute)
              /\ alarms[i].id # alarms[j].id

\* the store, empty at construction, holds two alarms added by callers, and add_alarm
\* has just refused a third one, created later with the time of one of them
NoTwoAlarmsOfOneTimeWitness ==
  /\ ret.op = "add_alarm"
  /\ ret.val = False
  /\ Len(alarms) = 2
  /\ \A i \in 1..Len(alarms) : alarms[i].id[2] = strftime(DateTimeNow(StartAlarm))
  /\ ret.arg.alarm.id[2] # strftime(DateTimeNow(StartAlarm))
  /\ \E i \in 1..Len(alarms) :
        /\ alarms[i].time = ret.arg.alarm.time
        /\ alarms[i].id # ret.arg.alarm.id

NoTriggerWhileHandlerOpen ==
  [][/\ \A k \in 1..Len(stack') : stack'[k].alarm.id \in DOMAIN active_alarms'
     /\ (ret'.op = "check_alarms" /\ stack # <<>>) =>
          \A e \in 1..Len(emitted'), k \in 1..Len(stack) :
             emitted'[e].sig = "alarm_triggered" => emitted'[e].alarm.id # stack[k].alarm.id]_vars

\* C27: on every day, the first day and the later ones alike, a poll made while the
\* clock reads the minute of an enabled alarm leaves the alarm triggered in that
\* minute of that day, by this poll or by an earlier poll of the minute, with
\* auto-dismiss and without: that it was triggered on an earlier day does not
\* suppress it.
FiresEveryDay ==
  [][ret'.op = "check_alarms" =>
       \A i \in 1..Len(alarms) :
          (/\ alarms[i].enabled
           /\ alarms[i].time.hour = CurrentTime(now).hour
           /\ alarms[i].time.minute = CurrentTime(now).minute)
             => \/ Triggers(emitted', alarms[i].id) >= 1
                \/ alarms[i].id \in rung]_vars

\* on the second day the first poll of 08:00 has triggered the auto-dismiss alarm
\* that the store has held since construction on the first day
FiresEveryDayWitness ==
  /\ now = SecondsPerDay + 8 * 3600
  /\ ret.op = "check_alarms"
  /\ Len(alarms) = 1
  /\ alarms[1].id = StoredAlarm.id
  /\ alarms[1].auto_dismiss
  /\ emitted = <<[sig |-> "alarm_triggered", alarm |-> alarms[1]]>>
  /\ StoredAlarm.id \in DOMAIN active_alarms

\* C28: no two requests of the pending queue have the same id.
PendingIdsDiffer ==
  \A i, j \in 1..Len(scheduled_notifications) :
     i # j => scheduled_notifications[i].id # scheduled_notifications[j].id

\* C29: alarms and alarm_threads of the thread-per-alarm variant have the same
\* length, and the thread at a position watches the alarm at that position.
ListsAligned ==
  /\ Len(app_alarms) = Len(alarm_threads)
  /\ \A i \in 1..Len(alarm_threads) :
        i <= Len(app_alarms) => threads[alarm_threads[i]].alarm_time = app_alarms[i]

\* C30: a thread emits alarm_signal at most once, and a thread that delete_alarm
\* has stopped and taken off alarm_threads emits nothing afterwards.
NoSignalAfterDelete ==
  [][\A th \in 1..Len(threads) :
        /\ threads'[th].emits <= 1
        /\ (\A i \in 1..Len(alarm_threads) : alarm_threads[i] # th)
              => threads'[th].emits = threads[th].emits]_vars

====
